---- MODULE Spec2Model ----
(***************************************************************************)
(* OSSECConfigManager / ActiveResponseManager: the configuration file is   *)
(* text (a sequence of one-character strings); the in-memory document is   *)
(* an ElementTree element tree.  An element is a record                    *)
(*     [tag, text, tail, kids]                                             *)
(* whose tag, text and tail are character sequences and whose kids is the  *)
(* sequence of child elements.  An element reference (Python object        *)
(* identity) is the sequence of child indices leading to it from the root. *)
(***************************************************************************)
EXTENDS Integers, Sequences, FiniteSets, TLC

VARIABLES
    disk,       \* the file system: path -> file content (text) or NoFile
    file_path,  \* self.file_path of the manager object
    root,       \* self.root, the synthetic root element of the parsed document
    loaded,     \* history: the tree as it was when the first manager was constructed
    pc,         \* "new", "ready", "failed" (the constructor raised), "saving"
    hist        \* history: the calls made so far, [op, args, ret], oldest first

vars == <<disk, file_path, root, loaded, pc, hist>>

-----------------------------------------------------------------------------
(* Bounds *)

\* number of editing calls issued on one manager object
MaxOps == 3

\* number of section and integration calls issued on one manager object
MaxTreeOps == 2

\* number of calls (edit, save, reload) in a run of the save specification
MaxIOOps == 3

\* number of top-level blocks of a generated input file
MaxBlocks == 3

-----------------------------------------------------------------------------
(* Characters, tags and texts *)

\* Python None for Element.text / Element.tail / an absent argument; it is
\* distinct from every character sequence because characters have length 1
None == <<"None">>

\* "no element": the result of find() when nothing matches (no child has index 0)
NoRef == <<0>>

NL == <<"\n">>

T_root == <<"r", "o", "o", "t">>
T_ossec_config == <<"o", "s", "s", "e", "c", "_", "c", "o", "n", "f", "i", "g">>
T_command == <<"c", "o", "m", "m", "a", "n", "d">>
T_active_response == <<"a", "c", "t", "i", "v", "e", "-", "r", "e", "s", "p", "o", "n", "s", "e">>
T_integration == <<"i", "n", "t", "e", "g", "r", "a", "t", "i", "o", "n">>
T_name == <<"n", "a", "m", "e">>
T_executable == <<"e", "x", "e", "c", "u", "t", "a", "b", "l", "e">>
T_timeout_allowed == <<"t", "i", "m", "e", "o", "u", "t", "_", "a", "l", "l", "o", "w", "e", "d">>
T_location == <<"l", "o", "c", "a", "t", "i", "o", "n">>
T_level == <<"l", "e", "v", "e", "l">>
T_timeout == <<"t", "i", "m", "e", "o", "u", "t">>
T_agent_id == <<"a", "g", "e", "n", "t", "_", "i", "d">>
T_rules_group == <<"r", "u", "l", "e", "s", "_", "g", "r", "o", "u", "p">>
T_rules_id == <<"r", "u", "l", "e", "s", "_", "i", "d">>
T_hook_url == <<"h", "o", "o", "k", "_", "u", "r", "l">>
T_global == <<"g", "l", "o", "b", "a", "l">>
T_list == <<"l", "i", "s", "t">>

\* str(i) for a non-negative int
RECURSIVE Str(_)
Str(i) ==
    LET digit == <<"0", "1", "2", "3", "4", "5", "6", "7", "8", "9">>[(i % 10) + 1]
    IN  IF i < 10 THEN <<digit>> ELSE Str(i \div 10) \o <<digit>>

\* indent * n ; a negative count gives the empty string
RECURSIVE Indent(_)
Indent(n) == IF n <= 0 THEN <<>> ELSE <<" ", " ">> \o Indent(n - 1)

-----------------------------------------------------------------------------
(* Element trees *)

Elem(tag, text, kids) == [tag |-> tag, text |-> text, tail |-> None, kids |-> kids]

Leaf(tag, text) == Elem(tag, text, <<>>)

\* the element a reference denotes
RECURSIVE NodeAt(_, _)
NodeAt(e, p) == IF p = <<>> THEN e ELSE NodeAt(e.kids[Head(p)], Tail(p))

\* the tree with the element at reference p replaced by n
RECURSIVE SetAt(_, _, _)
SetAt(e, p, n) ==
    IF p = <<>> THEN n
    ELSE [e EXCEPT !.kids = [@ EXCEPT ![Head(p)] = SetAt(@, Tail(p), n)]]

\* ET.SubElement(parent, ...) / parent.append(child): the child becomes the last child
AppendAt(e, p, child) ==
    LET par == NodeAt(e, p)
    IN  SetAt(e, p, [par EXCEPT !.kids = Append(@, child)])

\* the sequence s without its i-th element
DropIndex(s, i) == SubSeq(s, 1, i - 1) \o SubSeq(s, i + 1, Len(s))

\* list(parent) restricted to a tag, as references: parent.findall(tag)
FindAll(e, p, tag) ==
    LET ks == NodeAt(e, p).kids
        F[i \in 0..Len(ks)] ==
            IF i = 0 THEN <<>>
            ELSE IF ks[i].tag = tag THEN Append(F[i - 1], p \o <<i>>) ELSE F[i - 1]
    IN  F[Len(ks)]

\* element.find(tag) for a plain tag: reference of the first matching child
Find(e, p, tag) ==
    LET m == FindAll(e, p, tag) IN IF m = <<>> THEN NoRef ELSE m[1]

\* element.find(tag).text when the child exists, None otherwise
ChildText(e, p, tag) ==
    LET c == Find(e, p, tag) IN IF c = NoRef THEN None ELSE NodeAt(e, c).text

\* root.findall('.//tag'): every descendant with the tag, in document order
RECURSIVE Descendants(_, _, _)
Descendants(e, p, tag) ==
    LET ks == NodeAt(e, p).kids
        F[i \in 0..Len(ks)] ==
            IF i = 0 THEN <<>>
            ELSE F[i - 1]
                 \o (IF ks[i].tag = tag THEN <<p \o <<i>>>> ELSE <<>>)
                 \o Descendants(e, p \o <<i>>, tag)
    IN  F[Len(ks)]

\* ElementPath: root.findall('a/b/c') selects, step by step, every child with
\* the step's tag of every element selected so far, in document order
RECURSIVE SelectPath(_, _, _)
SelectPath(e, ps, path) ==
    IF path = <<>> THEN ps
    ELSE LET F[i \in 0..Len(ps)] ==
                 IF i = 0 THEN <<>> ELSE F[i - 1] \o FindAll(e, ps[i], Head(path))
         IN  SelectPath(e, F[Len(ps)], Tail(path))

\* a resolution that follows only the first child with each segment's tag
RECURSIVE FirstChain(_, _, _)
FirstChain(e, p, path) ==
    IF path = <<>> THEN p
    ELSE IF Find(e, p, Head(path)) = NoRef THEN NoRef
    ELSE FirstChain(e, Find(e, p, Head(path)), Tail(path))

FindPath_first_chain(e, path) ==
    IF path = <<>> THEN NoRef ELSE FirstChain(e, <<>>, path)

\* root.find(path) for a slash-separated path given as its list of segments;
\* the empty path selects nothing
FindPath(e, path) ==
    LET m == IF path = <<>> THEN <<>> ELSE SelectPath(e, <<<<>>>>, path)
    IN  IF m = <<>> THEN NoRef ELSE m[1]

\* self.root.remove(x): x must be a direct child of the root element,
\* otherwise list.remove raises ValueError and nothing changes
RootRemove(e, p) ==
    IF Len(p) = 1
    THEN [tree |-> [e EXCEPT !.kids = DropIndex(@, p[1])], raised |-> FALSE]
    ELSE [tree |-> e, raised |-> TRUE]

-----------------------------------------------------------------------------
(* Text <-> tree *)

\* position of the first occurrence of character c in s at or after i
\* (Len(s) + 1 when there is none)
RECURSIVE IndexOf(_, _, _)
IndexOf(s, c, i) ==
    IF i > Len(s) THEN Len(s) + 1
    ELSE IF s[i] = c THEN i ELSE IndexOf(s, c, i + 1)

\* The XML parser behind ET.fromstring, for documents made of start tags,
\* end tags, empty-element tags and character data.  ParseContent(s, i) reads
\* the content of an element from position i up to and including its end tag:
\* the character data before the first child is the element's text, the
\* character data after a child's end tag is that child's tail; empty character
\* data is None.  next is the position after the end tag, close the name in the
\* end tag (None at the end of the input), ok says that every tag is complete,
\* every name is a name and every end tag matches its start tag.
RECURSIVE ParseContent(_, _)
ParseContent(s, i) ==
    LET lt  == IndexOf(s, "<", i)
        gt  == IndexOf(s, ">", lt)
        txt == IF lt <= i THEN None ELSE SubSeq(s, i, lt - 1)
    IN  IF lt > Len(s)
        THEN [text |-> txt, kids |-> <<>>, next |-> Len(s) + 1, close |-> None, ok |-> TRUE]
        ELSE IF gt > Len(s)
        THEN [text |-> txt, kids |-> <<>>, next |-> Len(s) + 1, close |-> None, ok |-> FALSE]
        ELSE IF s[lt + 1] = "/"
        THEN [text |-> txt, kids |-> <<>>, next |-> gt + 1,
              close |-> SubSeq(s, lt + 2, gt - 1), ok |-> TRUE]
        ELSE LET empty == s[gt - 1] = "/"
                 stop  == IF ~empty THEN gt
                          ELSE IF s[gt - 2] = " " THEN gt - 2 ELSE gt - 1
                 tag   == SubSeq(s, lt + 1, stop - 1)
                 inner == IF empty
                          THEN [text |-> None, kids |-> <<>>, next |-> gt + 1,
                                close |-> tag, ok |-> TRUE]
                          ELSE ParseContent(s, gt + 1)
                 rest  == ParseContent(s, inner.next)
                 child == [tag |-> tag, text |-> inner.text, tail |-> rest.text,
                           kids |-> inner.kids]
             IN  [text |-> txt, kids |-> <<child>> \o rest.kids, next |-> rest.next,
                  close |-> rest.close,
                  ok |-> /\ tag # <<>>
                         /\ \A k \in 1..Len(tag) : tag[k] \notin {"<", "/", " ", "\n"}
                         /\ inner.ok
                         /\ inner.close = tag
                         /\ rest.ok]

\* f"<root>{content}</root>"
Wrapped(content) ==
    <<"<", "r", "o", "o", "t", ">">> \o content \o <<"<", "/", "r", "o", "o", "t", ">">>

\* ET.fromstring accepts the wrapped text: one well-formed root element,
\* followed by nothing but white space; otherwise it raises ParseError
WellFormed(content) ==
    LET doc == ParseContent(Wrapped(content), 1)
    IN  /\ doc.ok
        /\ doc.close = None
        /\ Len(doc.kids) = 1
        /\ \/ doc.kids[1].tail = None
           \/ \A k \in 1..Len(doc.kids[1].tail) : doc.kids[1].tail[k] \in {" ", "\n"}

\* _parse_with_single_root: ET.fromstring(f"<root>{content}</root>"); the root
\* element has no tail
_parse_with_single_root(content) ==
    [ParseContent(Wrapped(content), 1).kids[1] EXCEPT !.tail = None]

\* ET.tostring(element, encoding='unicode'): an element without text and without
\* children is written as an empty-element tag; the tail follows the element
RECURSIVE Serialize(_)
Serialize(e) ==
    LET F[i \in 0..Len(e.kids)] ==
            IF i = 0 THEN <<>> ELSE F[i - 1] \o Serialize(e.kids[i])
        hasText == e.text # None /\ e.text # <<>>
        hasTail == e.tail # None /\ e.tail # <<>>
    IN  (IF hasText \/ e.kids # <<>>
         THEN <<"<">> \o e.tag \o <<">">>
              \o (IF hasText THEN e.text ELSE <<>>)
              \o F[Len(e.kids)]
              \o <<"<", "/">> \o e.tag \o <<">">>
         ELSE <<"<">> \o e.tag \o <<" ", "/", ">">>)
        \o (IF hasTail THEN e.tail ELSE <<>>)

\* _format_config: the work list holds (level, element) pairs; an element with
\* children gets its text set, every element gets its tail set from the level
\* of the element that is next in the work list at that moment
RECURSIVE FormatQueue(_, _)
FormatQueue(e, queue) ==
    IF queue = <<>> THEN e
    ELSE LET level    == queue[1][1]
             p        == queue[1][2]
             rest     == Tail(queue)
             element  == NodeAt(e, p)
             children == [i \in 1..Len(element.kids) |-> <<level + 1, p \o <<i>>>>]
             text     == IF children # <<>> THEN NL \o Indent(level + 1) ELSE element.text
             tail     == IF rest # <<>> THEN NL \o Indent(rest[1][1])
                                        ELSE NL \o Indent(level - 1)
         IN  FormatQueue(SetAt(e, p, [element EXCEPT !.text = text, !.tail = tail]),
                         children \o rest)

_format_config(e) == FormatQueue(e, <<<<0, <<>>>>>>)

\* a slice by the lengths of "<root>" and "</root>"
StripWrapper_6_7(tree_str) == SubSeq(tree_str, 7, Len(tree_str) - 7)

\* tree_str[7:-8]
StripWrapper(tree_str) == SubSeq(tree_str, 8, Len(tree_str) - 8)

\* a merge that removes the extra blocks without moving their children
organize_ossec_config_drop(e) ==
    LET first == FindAll(e, <<>>, T_ossec_config)[1][1]
        Kept[i \in 0..Len(e.kids)] ==
            IF i = 0 THEN <<>>
            ELSE IF e.kids[i].tag = T_ossec_config /\ i # first THEN Kept[i - 1]
            ELSE Append(Kept[i - 1], e.kids[i])
    IN  IF Len(FindAll(e, <<>>, T_ossec_config)) > 1
        THEN [e EXCEPT !.kids = Kept[Len(e.kids)]] ELSE e

\* organize_ossec_config: the children of every ossec_config block after the
\* first are appended to the first block and the extra blocks are removed
organize_ossec_config(e) ==
    LET ossec_config_elements == FindAll(e, <<>>, T_ossec_config)
        n == Len(ossec_config_elements)
        Moved[i \in 1..n] ==
            IF i = 1 THEN <<>> ELSE Moved[i - 1] \o NodeAt(e, ossec_config_elements[i]).kids
        first == ossec_config_elements[1][1]
        Kept[i \in 0..Len(e.kids)] ==
            IF i = 0 THEN <<>>
            ELSE IF e.kids[i].tag = T_ossec_config /\ i # first THEN Kept[i - 1]
            ELSE IF i = first
                 THEN Append(Kept[i - 1], [e.kids[i] EXCEPT !.kids = @ \o Moved[n]])
                 ELSE Append(Kept[i - 1], e.kids[i])
    IN  IF n > 1 THEN [e EXCEPT !.kids = Kept[Len(e.kids)]] ELSE e

-----------------------------------------------------------------------------
(* ActiveResponseManager: queries and validators *)

\* first reference r in refs (document order) for which child `tag` of r has text `text`
FirstWithChildText(e, refs, tag, text) ==
    LET hits == SelectSeq(refs, LAMBDA r : Find(e, r, tag) # NoRef
                                           /\ NodeAt(e, Find(e, r, tag)).text = text)
    IN  IF hits = <<>> THEN NoRef ELSE hits[1]

\* a lookup that only sees commands that are direct children of the root
command_exists_toplevel(e, name) ==
    FirstWithChildText(e, FindAll(e, <<>>, T_command), T_name, name) # NoRef

command_exists(e, name) ==
    FirstWithChildText(e, Descendants(e, <<>>, T_command), T_name, name) # NoRef

\* the dictionaries built by get_commands / get_active_responses / get_integrations:
\* one per element found, mapping each child's tag to its text, as (tag, text)
\* pairs in child order
InfoList(e, tag) ==
    LET refs == Descendants(e, <<>>, tag)
    IN  [i \in 1..Len(refs) |->
            [j \in 1..Len(NodeAt(e, refs[i]).kids) |->
                <<NodeAt(e, refs[i]).kids[j].tag, NodeAt(e, refs[i]).kids[j].text>>]]

get_commands(e) == InfoList(e, T_command)

get_active_responses(e) == InfoList(e, T_active_response)

\* s.strip() for the whitespace characters space and newline
RECURSIVE StripWs(_)
StripWs(s) ==
    IF s = <<>> THEN s
    ELSE IF Head(s) \in {" ", "\n"} THEN StripWs(Tail(s))
    ELSE IF s[Len(s)] \in {" ", "\n"} THEN StripWs(SubSeq(s, 1, Len(s) - 1))
    ELSE s

\* s.split(sep) for a one-character separator
RECURSIVE Split(_, _)
Split(s, sep) ==
    LET i == IndexOf(s, sep, 1)
    IN  IF i > Len(s) THEN <<s>>
        ELSE <<SubSeq(s, 1, i - 1)>> \o Split(SubSeq(s, i + 1, Len(s)), sep)

\* a validator that looks at the segments without stripping them
_validate_rules_group_unstripped(rules_group) ==
    /\ rules_group # None
    /\ rules_group # <<>>
    /\ LET groups == Split(rules_group, "|")
       IN  \A i \in 1..Len(groups) :
               LET g == groups[i] IN g # <<>> /\ g[Len(g)] = ","

_validate_rules_group(rules_group) ==
    /\ rules_group # None
    /\ rules_group # <<>>
    /\ LET groups == Split(rules_group, "|")
       IN  \A i \in 1..Len(groups) :
               LET g == StripWs(groups[i]) IN g # <<>> /\ g[Len(g)] = ","

\* a validator for which a segment without any character passes
_validate_rules_id_empty_segment(rules_id) ==
    /\ rules_id # None
    /\ rules_id # <<>>
    /\ LET ids == Split(rules_id, ",")
       IN  \A i \in 1..Len(ids) :
               LET d == StripWs(ids[i])
               IN  \A k \in 1..Len(d) :
                       d[k] \in {"0", "1", "2", "3", "4", "5", "6", "7", "8", "9"}

_validate_rules_id(rules_id) ==
    /\ rules_id # None
    /\ rules_id # <<>>
    /\ LET ids == Split(rules_id, ",")
       IN  \A i \in 1..Len(ids) :
               LET d == StripWs(ids[i])
               IN  d # <<>> /\ \A k \in 1..Len(d) :
                       d[k] \in {"0", "1", "2", "3", "4", "5", "6", "7", "8", "9"}

_validate_level(level) == 1 <= level /\ level <= 16

\* Python None for an optional int argument
NoInt == -1

LocationType == {<<"l", "o", "c", "a", "l">>,
                 <<"s", "e", "r", "v", "e", "r">>,
                 <<"d", "e", "f", "i", "n", "e", "d", "-", "a", "g", "e", "n", "t">>,
                 <<"a", "l", "l">>}

-----------------------------------------------------------------------------
(* Inputs *)

Paths == {"ossec.conf", "new.conf", "backup.conf", "ossec.conf.bak", "new.conf.bak"}

NoFile == None

c1 == <<"c", "1">>
c2 == <<"c", "2">>
Names == {c1, c2}

local == <<"l", "o", "c", "a", "l">>
defined_agent == <<"d", "e", "f", "i", "n", "e", "d", "-", "a", "g", "e", "n", "t">>
yes == <<"y", "e", "s">>
no == <<"n", "o">>
slack == <<"s", "l", "a", "c", "k">>
h1 == <<"h", "1">>
h2 == <<"h", "2">>

CommandElem(name, executable, timeout_allowed) ==
    Elem(T_command, None, <<Leaf(T_name, name), Leaf(T_executable, executable),
                            Leaf(T_timeout_allowed, timeout_allowed)>>)

ActiveResponseElem(command, location) ==
    Elem(T_active_response, None, <<Leaf(T_command, command), Leaf(T_location, location)>>)

IntegrationElem(name, hook_url) ==
    Elem(T_integration, None, <<Leaf(T_name, name), Leaf(T_hook_url, hook_url)>>)

Container(kids) == Elem(T_ossec_config, None, kids)

\* the text of a file holding the given top-level blocks one after the other
RECURSIVE FileText(_)
FileText(blocks) ==
    IF blocks = <<>> THEN <<>> ELSE Serialize(Head(blocks)) \o FileText(Tail(blocks))

\* the keyword arguments of add_active_response, absent ones at their default
ArCall(command, location, level, timeout, agent_id, rules_group, rules_id) ==
    [command |-> command, location |-> location, level |-> level, timeout |-> timeout,
     agent_id |-> agent_id, rules_group |-> rules_group, rules_id |-> rules_id]

\* argument lists for add_active_response: the minimal call, each argument
\* varied on its own (valid and invalid), and two fully populated calls
ArArgs ==
    { ArCall(c, local, NoInt, NoInt, None, None, None) : c \in Names }
    \cup { ArCall(c1, l, NoInt, NoInt, None, None, None) :
             l \in {defined_agent, <<"r", "e", "m", "o", "t", "e">>} }
    \cup { ArCall(c1, local, n, NoInt, None, None, None) : n \in {0, 16, 17} }
    \cup { ArCall(c1, local, NoInt, NoInt, None, g, None) :
             g \in {<<"a", ",">>, <<"a", ",", "|", "b">>, <<>>} }
    \cup { ArCall(c1, local, NoInt, NoInt, None, None, i) :
             i \in {<<"1", "0", ",", "x">>, <<"7", ",">>} }
    \cup { ArCall(c1, defined_agent, NoInt, NoInt, a, None, None) :
             a \in {<<"0", "0", "1">>, <<>>} }
    \cup { ArCall(c1, local, 10, 300, None, None, <<"1", "0", ",", "2", "0">>) }

-----------------------------------------------------------------------------
(* Construction *)

\* a validation that only looks at active-responses directly under the root
FirstDangling_toplevel(e) ==
    LET ars == FindAll(e, <<>>, T_active_response)
        bad == SelectSeq(ars, LAMBDA ar :
                   /\ Find(e, ar, T_command) # NoRef
                   /\ ~command_exists(e, NodeAt(e, Find(e, ar, T_command)).text))
    IN  IF bad = <<>> THEN NoRef ELSE bad[1]

\* _validate_commands: the first active-response, in document order, whose
\* command child names no command; NoRef when there is none
FirstDangling(e) ==
    LET ars == Descendants(e, <<>>, T_active_response)
        bad == SelectSeq(ars, LAMBDA ar :
                   /\ Find(e, ar, T_command) # NoRef
                   /\ ~command_exists(e, NodeAt(e, Find(e, ar, T_command)).text))
    IN  IF bad = <<>> THEN NoRef ELSE bad[1]

\* ActiveResponseManager(path): parse, merge the ossec_config blocks, validate
Load(path) ==
    /\ disk[path] # NoFile
    /\ IF ~WellFormed(disk[path])
       THEN /\ pc' = "failed"
            /\ hist' = Append(hist, [op |-> "__init__", args |-> None, ret |-> "ParseError"])
            /\ file_path' = path
            /\ UNCHANGED <<root, loaded>>
       ELSE LET tree == organize_ossec_config(_parse_with_single_root(disk[path]))
                bad  == FirstDangling(tree)
            IN  /\ root' = tree
                /\ loaded' = IF pc = "new" THEN tree ELSE loaded
                /\ file_path' = path
                /\ pc' = IF bad = NoRef THEN "ready" ELSE "failed"
                /\ hist' = Append(hist,
                       [op |-> "__init__",
                        args |-> IF bad = NoRef THEN None
                                 ELSE ChildText(tree, bad, T_command),
                        ret |-> IF bad = NoRef THEN "None" ELSE "ValueError"])
    /\ UNCHANGED disk

\* the first manager object is constructed
Construct(path) == pc = "new" /\ Load(path)

-----------------------------------------------------------------------------
(* ActiveResponseManager: editing *)

CanCall == pc = "ready" /\ Len(hist) <= MaxOps

Returns(op, args, ret) == hist' = Append(hist, [op |-> op, args |-> args, ret |-> ret])

add_command(name, executable, timeout_allowed) ==
    /\ CanCall
    /\ LET args == [name |-> name, executable |-> executable,
                    timeout_allowed |-> timeout_allowed]
           container == Find(root, <<>>, T_ossec_config)
       IN  IF command_exists(root, name)
           THEN /\ Returns("add_command", args, "False")
                /\ UNCHANGED root
           ELSE IF container = NoRef
           THEN /\ Returns("add_command", args, "TypeError")
                /\ UNCHANGED root
           ELSE /\ Returns("add_command", args, "True")
                /\ root' = AppendAt(root, container,
                               CommandElem(name, executable,
                                           IF timeout_allowed THEN yes ELSE no))
    /\ UNCHANGED <<disk, file_path, loaded, pc>>

\* the element add_active_response builds: command and location, then each
\* optional field that is not None, in this order
NewActiveResponse(a) ==
    Elem(T_active_response, None,
         <<Leaf(T_command, a.command), Leaf(T_location, a.location)>>
         \o (IF a.level # NoInt THEN <<Leaf(T_level, Str(a.level))>> ELSE <<>>)
         \o (IF a.timeout # NoInt THEN <<Leaf(T_timeout, Str(a.timeout))>> ELSE <<>>)
         \o (IF a.agent_id # None THEN <<Leaf(T_agent_id, a.agent_id)>> ELSE <<>>)
         \o (IF a.rules_group # None THEN <<Leaf(T_rules_group, a.rules_group)>> ELSE <<>>)
         \o (IF a.rules_id # None THEN <<Leaf(T_rules_id, a.rules_id)>> ELSE <<>>))

\* the checks without the agent_id requirement of defined-agent
ArAccepted_no_agent_check(e, a) ==
    /\ command_exists(e, a.command)
    /\ a.location \in LocationType
    /\ ~(a.level # NoInt /\ ~_validate_level(a.level))
    /\ ~(a.rules_group # None /\ ~_validate_rules_group(a.rules_group))
    /\ ~(a.rules_id # None /\ ~_validate_rules_id(a.rules_id))

\* the checks of add_active_response, in order; TRUE when none fails
ArAccepted(e, a) ==
    /\ command_exists(e, a.command)
    /\ a.location \in LocationType
    /\ ~(a.location = defined_agent /\ (a.agent_id = None \/ a.agent_id = <<>>))
    /\ ~(a.level # NoInt /\ ~_validate_level(a.level))
    /\ ~(a.rules_group # None /\ ~_validate_rules_group(a.rules_group))
    /\ ~(a.rules_id # None /\ ~_validate_rules_id(a.rules_id))

add_active_response(a) ==
    /\ CanCall
    /\ LET container == Find(root, <<>>, T_ossec_config)
       IN  IF ~ArAccepted(root, a)
           THEN /\ Returns("add_active_response", a, "False")
                /\ UNCHANGED root
           ELSE IF container = NoRef
           THEN /\ Returns("add_active_response", a, "TypeError")
                /\ UNCHANGED root
           ELSE /\ Returns("add_active_response", a, "True")
                /\ root' = AppendAt(root, container, NewActiveResponse(a))
    /\ UNCHANGED <<disk, file_path, loaded, pc>>

\* the loop shared by remove_active_response and remove_command: the first
\* element found by './/tag' whose child `key` has the given text is handed to
\* self.root.remove
RemoveFirst(op, tag, key, text) ==
    LET target == FirstWithChildText(root, Descendants(root, <<>>, tag), key, text)
        args   == [name |-> text]
    IN  IF target = NoRef
        THEN /\ Returns(op, args, "False")
             /\ UNCHANGED root
        ELSE IF RootRemove(root, target).raised
        THEN /\ Returns(op, args, "ValueError")
             /\ UNCHANGED root
        ELSE /\ Returns(op, args, "True")
             /\ root' = RootRemove(root, target).tree

remove_active_response(command) ==
    /\ CanCall
    /\ RemoveFirst("remove_active_response", T_active_response, T_command, command)
    /\ UNCHANGED <<disk, file_path, loaded, pc>>

remove_command(name) ==
    /\ CanCall
    /\ RemoveFirst("remove_command", T_command, T_name, name)
    /\ UNCHANGED <<disk, file_path, loaded, pc>>

-----------------------------------------------------------------------------
(* Specification of the active-response editor *)

\* input files: an empty container; a command with a binding inside the
\* container; a binding at top level next to the container; no container at all
EditorDocs ==
    { <<Container(<<>>)>>,
      <<Container(<<CommandElem(c1, c1, yes), ActiveResponseElem(c1, local)>>)>>,
      <<Container(<<CommandElem(c2, c2, no)>>), ActiveResponseElem(c2, local)>>,
      <<CommandElem(c1, c1, yes)>> }

InitWith(docs) ==
    /\ \E d \in docs :
           disk = [p \in Paths |-> IF p = "ossec.conf" THEN FileText(d) ELSE NoFile]
    /\ file_path = "ossec.conf"
    /\ root = Elem(T_root, None, <<>>)
    /\ loaded = Elem(T_root, None, <<>>)
    /\ pc = "new"
    /\ hist = <<>>

Init == InitWith(EditorDocs)

Next ==
    \/ Construct("ossec.conf")
    \/ \E n \in Names, b \in BOOLEAN : add_command(n, IF b THEN c1 ELSE c2, b)
    \/ \E a \in ArArgs : add_active_response(a)
    \/ \E n \in Names : remove_active_response(n)
    \/ \E n \in Names : remove_command(n)

Spec == Init /\ [][Next]_vars

-----------------------------------------------------------------------------
(* Properties of the active-response editor *)

\* the call at position i of the history is a call of op that returned ret
Called(h, i, op, ret) == i >= 1 /\ i <= Len(h) /\ h[i].op = op /\ h[i].ret = ret

\* references of the Command entities (command elements with a name child) named n
CommandEntities(e, n) ==
    { i \in 1..Len(Descendants(e, <<>>, T_command)) :
        ChildText(e, Descendants(e, <<>>, T_command)[i], T_name) = n }

\* the (tag, text) pairs of the fields supplied to add_active_response
SuppliedFields(a) ==
    <<<<T_command, a.command>>, <<T_location, a.location>>>>
    \o (IF a.level = NoInt THEN <<>> ELSE <<<<T_level, Str(a.level)>>>>)
    \o (IF a.timeout = NoInt THEN <<>> ELSE <<<<T_timeout, Str(a.timeout)>>>>)
    \o (IF a.agent_id = None THEN <<>> ELSE <<<<T_agent_id, a.agent_id>>>>)
    \o (IF a.rules_group = None THEN <<>> ELSE <<<<T_rules_group, a.rules_group>>>>)
    \o (IF a.rules_id = None THEN <<>> ELSE <<<<T_rules_id, a.rules_id>>>>)

\* the active-responses whose command field is c, as indices into get_active_responses
BindingsOf(e, c) ==
    { i \in 1..Len(get_active_responses(e)) :
        \E j \in 1..Len(get_active_responses(e)[i]) :
            get_active_responses(e)[i][j] = <<T_command, c>> }

\* C2: scenario add/remove.  When add_command(c, ...) and then
\* add_active_response(command=c, ...) both returned True, get_commands lists c
\* and get_active_responses lists the new binding; a remove_active_response(c)
\* that follows returns True, and afterwards no active-response with command c
\* is present while the Command c still exists.
C2_ScenarioAddRemove ==
    LET n == Len(hist) IN
    /\ ( /\ Called(hist, n - 1, "add_command", "True")
         /\ Called(hist, n, "add_active_response", "True")
         /\ hist[n].args.command = hist[n - 1].args.name )
       => /\ \E i \in 1..Len(get_commands(root)) :
                 \E j \in 1..Len(get_commands(root)[i]) :
                     get_commands(root)[i][j] = <<T_name, hist[n].args.command>>
          /\ \E i \in 1..Len(get_active_responses(root)) :
                 get_active_responses(root)[i] = SuppliedFields(hist[n].args)
    /\ ( /\ Called(hist, n - 2, "add_command", "True")
         /\ Called(hist, n - 1, "add_active_response", "True")
         /\ hist[n - 1].args.command = hist[n - 2].args.name
         /\ hist[n].op = "remove_active_response"
         /\ hist[n].args.name = hist[n - 2].args.name )
       => /\ hist[n].ret = "True"
          /\ BindingsOf(root, hist[n].args.name) = {}
          /\ CommandEntities(root, hist[n].args.name) # {}

\* the document holds a container block
HasContainer(e) == \E i \in 1..Len(e.kids) : e.kids[i].tag = T_ossec_config

\* one of the checks named by the claim fails
C3_SomeCheckFails(e, a) ==
    \/ CommandEntities(e, a.command) = {}
    \/ a.location \notin LocationType
    \/ a.location = defined_agent /\ a.agent_id \in {None, <<>>}
    \/ a.level # NoInt /\ ~_validate_level(a.level)
    \/ a.rules_group # None /\ ~_validate_rules_group(a.rules_group)
    \/ a.rules_id # None /\ ~_validate_rules_id(a.rules_id)

\* exactly one active-response element holding just the supplied fields has
\* been appended to a top-level block, and nothing else has changed
C3_AppendedOne(e, f, a) ==
    \E b \in 1..Len(e.kids) :
        \E node \in {f.kids[b].kids[k] : k \in 1..Len(f.kids[b].kids)} :
            /\ f = [e EXCEPT !.kids[b].kids = Append(@, node)]
            /\ node.tag = T_active_response
            /\ [j \in 1..Len(node.kids) |-> <<node.kids[j].tag, node.kids[j].text>>]
                   = SuppliedFields(a)
            /\ \A j \in 1..Len(node.kids) : node.kids[j].kids = <<>>

C5_AddCommandTwice ==
    [][ ( /\ Called(hist, Len(hist), "add_command", "True")
          /\ hist' # hist
          /\ hist'[Len(hist')].op = "add_command"
          /\ hist'[Len(hist')].args.name = hist[Len(hist)].args.name )
        => /\ hist'[Len(hist')].ret = "False"
           /\ root' = root
           /\ Cardinality(CommandEntities(root', hist[Len(hist)].args.name)) = 1 ]_vars

\* the second call passed another executable and timeout_allowed
C5_Witness ==
    LET n == Len(hist) IN
    /\ Called(hist, n - 1, "add_command", "True")
    /\ Called(hist, n, "add_command", "False")
    /\ hist[n].args.name = hist[n - 1].args.name
    /\ hist[n].args.executable # hist[n - 1].args.executable
    /\ hist[n].args.timeout_allowed # hist[n - 1].args.timeout_allowed
    /\ HasContainer(root)

-----------------------------------------------------------------------------
(* Specification of construction: input files of up to MaxBlocks top-level   *)
(* blocks                                                                    *)

LoadBlocks ==
    { Container(<<CommandElem(c1, c1, yes), IntegrationElem(slack, h1)>>),
      Container(<<ActiveResponseElem(c1, local)>>),
      Container(<<ActiveResponseElem(c2, local), CommandElem(c2, c2, no)>>),
      Container(<<>>),
      CommandElem(c2, c1, yes),
      Elem(T_active_response, None, <<Leaf(T_location, local)>>),
      Elem(T_global, None, <<Leaf(T_list, c1)>>) }

LoadDocs == UNION { [1..n -> LoadBlocks] : n \in 0..MaxBlocks }

InitLoad == InitWith(LoadDocs)

NextLoad == Construct("ossec.conf")

SpecLoad == InitLoad /\ [][NextLoad]_vars

\* the top-level blocks of the file the manager was constructed from, before
\* the merge
InputBlocks == _parse_with_single_root(disk[file_path]).kids

IsContainer(k) == k.tag = T_ossec_config

RECURSIVE KidsInOrder(_)
KidsInOrder(blocks) ==
    IF blocks = <<>> THEN <<>> ELSE Head(blocks).kids \o KidsInOrder(Tail(blocks))

\* C1: merge on load.  When the file holds N > 1 ossec_config blocks, after
\* initialization exactly one ossec_config block is left under the root, its
\* children are those of block 1, then those of block 2, ..., block N, each in
\* its original order, and the other top-level blocks are unchanged.
C1_MergeOnLoad ==
    ( pc # "new" /\ Len(SelectSeq(InputBlocks, IsContainer)) > 1 )
    => /\ Len(SelectSeq(root.kids, IsContainer)) = 1
       /\ SelectSeq(root.kids, IsContainer)[1].kids
              = KidsInOrder(SelectSeq(InputBlocks, IsContainer))
       /\ SelectSeq(root.kids, LAMBDA k : ~IsContainer(k))
              = SelectSeq(InputBlocks, LAMBDA k : ~IsContainer(k))

\* two container blocks with children around a block of another name
C1_Witness ==
    /\ pc = "ready"
    /\ Len(InputBlocks) = 3
    /\ IsContainer(InputBlocks[1]) /\ InputBlocks[1].kids # <<>>
    /\ ~IsContainer(InputBlocks[2])
    /\ IsContainer(InputBlocks[3]) /\ InputBlocks[3].kids # <<>>
    /\ Len(root.kids) = 2
    /\ Len(root.kids[1].kids) >= 3
    /\ root.kids[2] = InputBlocks[2]

\* the texts of the field `tag` in a list of dictionaries
FieldValues(infos, tag) ==
    UNION { { infos[i][j][2] : j \in { k \in 1..Len(infos[i]) : infos[i][k][1] = tag } } :
            i \in 1..Len(infos) }

\* the command values of the active-responses that equal the name of no
\* Command entity
DanglingCommands(e) ==
    FieldValues(get_active_responses(e), T_command) \ FieldValues(get_commands(e), T_name)

\* C4: load-time referential integrity.  The constructor raises, naming the
\* command, exactly when the document holds an active-response whose command
\* value is the name of no Command entity.
C4_LoadTimeIntegrity ==
    pc # "new"
    => /\ pc = "failed" <=> DanglingCommands(root) # {}
       /\ pc = "failed" => hist[1].ret = "ValueError" /\ hist[1].args \in DanglingCommands(root)
       /\ pc = "ready" => hist[1].ret = "None"

\* construction failed on a binding of c1 although a Command c2 exists
C4_Witness ==
    /\ pc = "failed"
    /\ hist[1].args = c1
    /\ CommandEntities(root, c2) # {}
    /\ CommandEntities(root, c1) = {}

-----------------------------------------------------------------------------
(* OSSECConfigManager: integrations and sections *)

CanCallTree == pc = "ready" /\ Len(hist) <= MaxTreeOps

\* integration_details is a dict, given as its (tag, value) items in order
add_integration(integration_details) ==
    /\ CanCallTree
    /\ LET container == Find(root, <<>>, T_ossec_config)
           new_integration ==
               Elem(T_integration, None,
                    [i \in 1..Len(integration_details) |->
                        Leaf(integration_details[i][1], integration_details[i][2])])
       IN  IF container = NoRef
           THEN /\ Returns("add_integration", integration_details, "TypeError")
                /\ UNCHANGED root
           ELSE /\ Returns("add_integration", integration_details, "Element")
                /\ root' = AppendAt(root, container, new_integration)
    /\ UNCHANGED <<disk, file_path, loaded, pc>>

\* the integrations, in document order, that match name and, when hook_url is
\* given, hook_url
MatchingIntegrations(e, name, hook_url) ==
    SelectSeq(Descendants(e, <<>>, T_integration),
              LAMBDA r : /\ ChildText(e, r, T_name) = name
                         /\ (hook_url = None \/ ChildText(e, r, T_hook_url) = hook_url))

remove_integration(name, hook_url) ==
    /\ CanCallTree
    /\ LET args == [name |-> name, hook_url |-> hook_url]
           hits == MatchingIntegrations(root, name, hook_url)
       IN  IF hits = <<>>
           THEN /\ Returns("remove_integration", args, "False")
                /\ UNCHANGED root
           ELSE IF RootRemove(root, hits[1]).raised
           THEN /\ Returns("remove_integration", args, "ValueError")
                /\ UNCHANGED root
           ELSE /\ Returns("remove_integration", args, "True")
                /\ root' = RootRemove(root, hits[1]).tree
    /\ UNCHANGED <<disk, file_path, loaded, pc>>

\* path is the list path.split('/'); parent_path is all but the last segment
remove_config_section(path) ==
    /\ CanCallTree
    /\ LET parent_path    == SubSeq(path, 1, Len(path) - 1)
           section_name   == path[Len(path)]
           parent_element == FindPath(root, parent_path)
       IN  IF parent_element # NoRef
           THEN root' = SetAt(root, parent_element,
                            [NodeAt(root, parent_element) EXCEPT
                                !.kids = SelectSeq(@, LAMBDA k : k.tag # section_name)])
           ELSE UNCHANGED root
    /\ Returns("remove_config_section", path, "None")
    /\ UNCHANGED <<disk, file_path, loaded, pc>>

section_exists(path) ==
    /\ CanCallTree
    /\ Returns("section_exists", path,
               IF FindPath(root, path) # NoRef THEN "True" ELSE "False")
    /\ UNCHANGED <<disk, file_path, root, loaded, pc>>

-----------------------------------------------------------------------------
(* Specification of the section and integration operations *)

\* input files: integrations inside the container, the first without hook_url;
\* integrations at top level around the container; two container blocks to be
\* merged, with repeated sections; repeated top-level sections
TreeDocs ==
    { <<Container(<<Elem(T_integration, None, <<Leaf(T_name, slack)>>),
                    IntegrationElem(slack, h1),
                    CommandElem(c1, c1, yes)>>)>>,
      <<IntegrationElem(slack, h1),
        Container(<<IntegrationElem(slack, h2)>>),
        IntegrationElem(slack, h2)>>,
      <<Container(<<Elem(T_global, None, <<>>), IntegrationElem(h1, h1)>>),
        Container(<<Elem(T_global, None, <<Leaf(T_list, c1), Leaf(T_list, c2)>>)>>)>>,
      <<Elem(T_global, None, <<Leaf(T_name, c1)>>),
        Elem(T_global, None, <<Leaf(T_list, c1), Leaf(T_name, c2), Leaf(T_list, c2)>>)>> }

IntegrationCalls ==
    { <<<<T_name, slack>>, <<T_hook_url, h2>>>>,
      <<<<T_name, h1>>>> }

SectionPaths ==
    { <<T_ossec_config>>,
      <<T_global>>,
      <<T_global, T_list>>,
      <<T_global, T_name>>,
      <<T_ossec_config, T_integration>>,
      <<T_ossec_config, T_integration, T_hook_url>>,
      <<T_ossec_config, T_global, T_list>> }

InitTree == InitWith(TreeDocs)

NextTree ==
    \/ Construct("ossec.conf")
    \/ \E d \in IntegrationCalls : add_integration(d)
    \/ \E n \in {slack, h1}, h \in {None, h1, h2} : remove_integration(n, h)
    \/ \E path \in SectionPaths : remove_config_section(path)
    \/ \E path \in SectionPaths : section_exists(path)

SpecTree == InitTree /\ [][NextTree]_vars

-----------------------------------------------------------------------------
(* Properties of the section and integration operations *)

\* the call that a step has just made
NewCall(op) == hist' # hist /\ hist'[Len(hist')].op = op

\* the tree without the element at reference p
WithoutElement(e, p) ==
    LET parent == SubSeq(p, 1, Len(p) - 1)
    IN  SetAt(e, parent, [NodeAt(e, parent) EXCEPT !.kids = DropIndex(@, p[Len(p)])])

\* C8: remove_integration(name, hook_url) returns True and removes exactly the
\* first integration with that name (and that hook_url when one is given),
\* wherever it lies, the ossec_config block included, leaving everything else
\* unchanged; it returns False and changes nothing when none matches.
C8_RemoveIntegration ==
    [][ NewCall("remove_integration")
        => LET call == hist'[Len(hist')]
               hits == SelectSeq(Descendants(root, <<>>, T_integration),
                           LAMBDA r :
                               /\ ChildText(root, r, T_name) = call.args.name
                               /\ call.args.hook_url # None
                                  => ChildText(root, r, T_hook_url) = call.args.hook_url)
           IN  IF hits # <<>>
               THEN call.ret = "True" /\ root' = WithoutElement(root, hits[1])
               ELSE call.ret = "False" /\ root' = root ]_vars

\* C9: remove_config_section(path), for a path whose parent resolves (the
\* parent of a one-segment path being the root), removes every child of that
\* parent whose tag is the final segment and nothing else.
C9_RemoveSection ==
    [][ NewCall("remove_config_section")
        => LET path   == hist'[Len(hist')].args
               parent == IF Len(path) = 1 THEN <<>>
                         ELSE FindPath(root, SubSeq(path, 1, Len(path) - 1))
           IN  parent # NoRef
               => /\ root' = SetAt(root, parent,
                                 [NodeAt(root, parent) EXCEPT
                                     !.kids = SelectSeq(@, LAMBDA k : k.tag # path[Len(path)])])
                  /\ FindAll(root', parent, path[Len(path)]) = <<>> ]_vars

\* a chain of children, one per segment, leads from element p along the path
RECURSIVE ChainExists(_, _, _)
ChainExists(e, p, path) ==
    \/ path = <<>>
    \/ \E i \in 1..Len(NodeAt(e, p).kids) :
           /\ NodeAt(e, p).kids[i].tag = Head(path)
           /\ ChainExists(e, p \o <<i>>, Tail(path))

\* the element reached by taking, segment by segment, the first child with
\* the segment's tag; NoRef when that child is missing at some segment
RECURSIVE FirstDescendantChain(_, _, _)
FirstDescendantChain(e, p, path) ==
    IF path = <<>> THEN p
    ELSE LET firsts == { i \in 1..Len(NodeAt(e, p).kids) :
                           /\ NodeAt(e, p).kids[i].tag = Head(path)
                           /\ \A j \in 1..(i - 1) : NodeAt(e, p).kids[j].tag # Head(path) }
         IN  IF firsts = {} THEN NoRef
             ELSE FirstDescendantChain(e, p \o <<CHOOSE i \in firsts : TRUE>>, Tail(path))

\* C10 as stated: section_exists follows only the first descendant chain, so
\* it is true exactly when the first child with each segment's tag has a child
\* for the next segment.
C10_Original ==
    [][ NewCall("section_exists")
        => ( hist'[Len(hist')].ret = "True"
             <=> FirstDescendantChain(root, <<>>, hist'[Len(hist')].args) # NoRef ) ]_vars

\* C10 amended: section_exists is true exactly when some chain of children
\* matches the path, also when the first child with a segment's tag has no
\* child for the next segment and only a later sibling with that tag has.
C10_SectionExistsAnyChain ==
    [][ NewCall("section_exists")
        => ( hist'[Len(hist')].ret = "True"
             <=> ChainExists(root, <<>>, hist'[Len(hist')].args) ) ]_vars

\* section_exists answered True for a path of three segments that the first
\* descendant chain does not reach
C10_Witness ==
    /\ Called(hist, Len(hist), "section_exists", "True")
    /\ Len(hist[Len(hist)].args) = 3
    /\ FirstDescendantChain(root, <<>>, hist[Len(hist)].args) = NoRef

-----------------------------------------------------------------------------
(* OSSECConfigManager: backup and save *)

\* Python None for an optional path argument
NoPath == "None"

\* the backup path create_backup uses when none is given,
\* <file_path>.<timestamp>.bak, for the two configuration files of the model
DefaultBackup(fp) == IF fp = "ossec.conf" THEN "ossec.conf.bak" ELSE "new.conf.bak"

\* a backup that copies nothing
create_backup_skipped(d, fp, backup_path) == d

\* create_backup: shutil.copy2(self.file_path, backup_path); the file system
\* after the copy
create_backup(d, fp, backup_path) ==
    [d EXCEPT ![IF backup_path = NoPath THEN DefaultBackup(fp) ELSE backup_path] = d[fp]]

\* save_config, first part: the backup.  shutil.copy2 raises SameFileError when
\* the backup path is the file itself, and save_config ends there.
save_config_backup(target, backup, backup_path) ==
    /\ pc = "ready"
    /\ Len(hist) <= MaxIOOps
    /\ LET args == [file_path |-> target, create_backup |-> backup,
                    backup_path |-> backup_path]
       IN  IF backup /\ backup_path = file_path
           THEN /\ Returns("save_config", args, "SameFileError")
                /\ UNCHANGED <<disk, pc>>
           ELSE /\ Returns("save_config", args, "running")
                /\ disk' = IF backup THEN create_backup(disk, file_path, backup_path)
                                     ELSE disk
                /\ pc' = "saving"
    /\ UNCHANGED <<file_path, root, loaded>>

\* save_config, second part: format the tree, serialize it, write the text
\* without the root wrapper to the target path
save_config_write ==
    /\ pc = "saving"
    /\ LET call        == hist[Len(hist)]
           target_path == IF call.args.file_path # NoPath THEN call.args.file_path
                                                          ELSE file_path
           formatted   == _format_config(root)
       IN  /\ root' = formatted
           /\ disk' = [disk EXCEPT ![target_path] = StripWrapper(Serialize(formatted))]
           /\ hist' = [hist EXCEPT ![Len(hist)].ret = "None"]
    /\ pc' = "ready"
    /\ UNCHANGED <<file_path, loaded>>

\* a new manager object is constructed on a configuration file
Reload(path) ==
    /\ pc = "ready"
    /\ Len(hist) <= MaxIOOps
    /\ Load(path)

-----------------------------------------------------------------------------
(* Specification of save, backup and reload *)

\* an element written with the given whitespace around its children
Pretty(tag, text, tail, kids) == [tag |-> tag, text |-> text, tail |-> tail, kids |-> kids]

\* input files: two container blocks around another block, on one line; an
\* indented file with nesting of depth three, an empty element and a leaf of
\* blanks; the empty file; a file without container block
IODocs ==
    { <<Container(<<CommandElem(c1, c1, yes)>>),
        Elem(T_global, None, <<Leaf(T_list, c1)>>),
        Container(<<ActiveResponseElem(c1, local), IntegrationElem(slack, h1)>>)>>,
      <<Pretty(T_ossec_config, NL \o Indent(1), NL,
               <<Pretty(T_global, NL \o Indent(2), NL \o Indent(1),
                        <<Pretty(T_list, c1, NL \o Indent(2), <<>>),
                          Pretty(T_list, <<" ", " ">>, NL \o Indent(1), <<>>)>>),
                 Pretty(T_integration, NL \o Indent(2), NL \o Indent(1),
                        <<Pretty(T_name, slack, NL \o Indent(2), <<>>),
                          Pretty(T_hook_url, None, NL \o Indent(1), <<>>)>>),
                 Pretty(T_global, None, NL, <<>>)>>),
        Pretty(T_ossec_config, NL, NL, <<Pretty(T_list, c2, NL, <<>>)>>)>>,
      <<>>,
      <<Elem(T_global, None, <<Elem(T_list, None, <<Leaf(T_name, c1)>>)>>),
        Leaf(T_list, c2)>> }

InitIO == InitWith(IODocs)

NextIO ==
    \/ Construct("ossec.conf")
    \/ \E d \in IntegrationCalls : add_integration(d)
    \/ \E target \in {NoPath, "new.conf"} :
           \/ save_config_backup(target, FALSE, NoPath)
           \/ \E backup_path \in {NoPath, "backup.conf", "new.conf", "ossec.conf"} :
                  save_config_backup(target, TRUE, backup_path)
    \/ save_config_write
    \/ \E path \in {"ossec.conf", "new.conf"} : Reload(path)

SpecIO == InitIO /\ [][NextIO]_vars

-----------------------------------------------------------------------------
(* Properties of save, backup and reload *)

\* what a document says: tags, nesting, child order and the texts of the
\* leaves; the white space between elements (the text of an element with
\* children, every tail) is left out
RECURSIVE Logical(_)
Logical(e) ==
    [tag  |-> e.tag,
     text |-> IF e.kids = <<>> THEN e.text ELSE None,
     kids |-> [i \in 1..Len(e.kids) |-> Logical(e.kids[i])]]

\* the path a save_config call writes to, for a manager on file fp
TargetOf(call, fp) ==
    IF call.args.file_path = NoPath THEN fp ELSE call.args.file_path

\* the path a save_config call backs up to, for a manager on file fp
BackupOf(call, fp) ==
    IF call.args.backup_path = NoPath THEN DefaultBackup(fp) ELSE call.args.backup_path

\* so far files were only loaded and saved
NoEdits(h) ==
    \A i \in 1..Len(h) :
        \/ h[i].op = "__init__" /\ h[i].ret = "None"
        \/ h[i].op = "save_config"

C7_BackupPrecedesWrite ==
    [][ /\ ( /\ pc = "ready" /\ pc' = "saving"
             /\ hist'[Len(hist')].args.create_backup
             /\ BackupOf(hist'[Len(hist')], file_path) # TargetOf(hist'[Len(hist')], file_path) )
           => /\ disk'[BackupOf(hist'[Len(hist')], file_path)] = disk[file_path]
              /\ \A p \in Paths \ {BackupOf(hist'[Len(hist')], file_path)} : disk'[p] = disk[p]
        /\ ( /\ pc = "saving" /\ pc' = "ready"
             /\ hist[Len(hist)].args.create_backup
             /\ BackupOf(hist[Len(hist)], file_path) # TargetOf(hist[Len(hist)], file_path) )
           => /\ disk[BackupOf(hist[Len(hist)], file_path)] = disk[file_path]
              /\ disk'[BackupOf(hist[Len(hist)], file_path)] = disk[file_path]
        /\ ( NewCall("save_config") /\ hist'[Len(hist')].ret = "SameFileError" )
           => disk' = disk /\ pc' = "ready" ]_vars

\* after a save, an edit and a second save onto the original path, the backup
\* holds the text of the first save, not that of the edited tree
C7_Witness ==
    /\ pc = "ready"
    /\ Len(hist) = 4
    /\ Called(hist, 2, "save_config", "None")
    /\ Called(hist, 3, "add_integration", "Element")
    /\ Called(hist, 4, "save_config", "None")
    /\ hist[4].args.create_backup
    /\ hist[4].args.file_path = NoPath
    /\ hist[4].args.backup_path = "backup.conf"
    /\ hist[2].args.file_path = NoPath
    /\ disk["backup.conf"] # disk["ossec.conf"]
    /\ disk["backup.conf"] # NoFile
    /\ WellFormed(disk["backup.conf"])
    /\ Logical(_parse_with_single_root(disk["backup.conf"])) = Logical(loaded)

-----------------------------------------------------------------------------
(* ActiveResponseManager: update_active_response *)

MaxUpdateOps == 2

\* the values of an updates mapping (Dict[str, Any]): an int, a string, or a
\* non-negative float given in halves (33 halves is 16.5)
IntValue(n) == [kind |-> "int", n |-> n, s |-> <<>>]

StrValue(s) == [kind |-> "str", n |-> 0, s |-> s]

FloatValue(halves) == [kind |-> "float", n |-> halves, s |-> <<>>]

Digits == {"0", "1", "2", "3", "4", "5", "6", "7", "8", "9"}

\* the number a string of decimal digits denotes
RECURSIVE DigitsValue(_)
DigitsValue(d) ==
    IF d = <<>> THEN 0
    ELSE 10 * DigitsValue(SubSeq(d, 1, Len(d) - 1))
         + (CHOOSE k \in 0..9 : Str(k) = <<d[Len(d)]>>)

\* int(value): an int is itself, a float is truncated, a string is stripped
\* and read as an unsigned decimal number; any other string raises ValueError
int(value) ==
    IF value.kind = "int" THEN [raised |-> FALSE, n |-> value.n]
    ELSE IF value.kind = "float" THEN [raised |-> FALSE, n |-> value.n \div 2]
    ELSE LET d == StripWs(value.s)
         IN  IF d # <<>> /\ \A k \in 1..Len(d) : d[k] \in Digits
             THEN [raised |-> FALSE, n |-> DigitsValue(d)]
             ELSE [raised |-> TRUE, n |-> 0]

\* str(value): a float is written with its fractional part
str(value) ==
    IF value.kind = "int" THEN Str(value.n)
    ELSE IF value.kind = "float"
    THEN Str(value.n \div 2) \o <<".", IF value.n % 2 = 0 THEN "0" ELSE "5">>
    ELSE value.s

\* the validation of one entry of updates: "ok", the "False" of a failed
\* validator, or the exception of int(value) or of value.split on a number
UpdateCheck(tag, value) ==
    IF tag = T_level
    THEN IF int(value).raised THEN "ValueError"
         ELSE IF ~_validate_level(int(value).n) THEN "False" ELSE "ok"
    ELSE IF tag \in {T_rules_group, T_rules_id}
    THEN IF value.kind # "str"
         THEN IF value.n = 0 THEN "False" ELSE "AttributeError"
         ELSE IF tag = T_rules_group /\ ~_validate_rules_group(value.s) THEN "False"
         ELSE IF tag = T_rules_id /\ ~_validate_rules_id(value.s) THEN "False"
         ELSE "ok"
    ELSE "ok"

\* the loop over updates.items() on the active-response ar: each entry is
\* validated and then written at once, so that the entries before a failing
\* one stay written
RECURSIVE UpdateEntries(_, _, _)
UpdateEntries(e, ar, updates) ==
    IF updates = <<>> THEN [tree |-> e, ret |-> "True"]
    ELSE LET tag     == Head(updates)[1]
             value   == Head(updates)[2]
             element == Find(e, ar, tag)
         IN  IF UpdateCheck(tag, value) # "ok"
             THEN [tree |-> e, ret |-> UpdateCheck(tag, value)]
             ELSE UpdateEntries(
                      IF element # NoRef
                      THEN SetAt(e, element, [NodeAt(e, element) EXCEPT !.text = str(value)])
                      ELSE AppendAt(e, ar, Leaf(tag, str(value))),
                      ar, Tail(updates))

CanCallUpdate == pc = "ready" /\ Len(hist) <= MaxUpdateOps

\* updates is the list of the mapping's items in insertion order
update_active_response(command, updates) ==
    /\ CanCallUpdate
    /\ LET ar   == FirstWithChildText(root, Descendants(root, <<>>, T_active_response),
                                      T_command, command)
           args == [command |-> command, updates |-> updates]
       IN  IF ar = NoRef
           THEN /\ Returns("update_active_response", args, "False")
                /\ UNCHANGED root
           ELSE /\ Returns("update_active_response", args, UpdateEntries(root, ar, updates).ret)
                /\ root' = UpdateEntries(root, ar, updates).tree
    /\ UNCHANGED <<disk, file_path, loaded, pc>>

-----------------------------------------------------------------------------
(* Specification of active-response updates *)

server == <<"s", "e", "r", "v", "e", "r">>

\* input files: a binding without level; a binding with level and timeout; two
\* commands with a binding each, the one of c2 first
UpdateDocs ==
    { <<Container(<<CommandElem(c1, c1, yes), ActiveResponseElem(c1, local)>>)>>,
      <<Container(<<CommandElem(c1, c1, yes),
                    Elem(T_active_response, None,
                         <<Leaf(T_command, c1), Leaf(T_location, local),
                           Leaf(T_level, Str(5)), Leaf(T_timeout, Str(60))>>)>>)>>,
      <<Container(<<CommandElem(c1, c1, yes), CommandElem(c2, c2, no),
                    ActiveResponseElem(c2, server), ActiveResponseElem(c1, local)>>)>> }

\* the levels around both ends of the valid range
Levels == {0, 1, 16, 17}

LevelArgs == { ArCall(c1, local, n, NoInt, None, None, None) : n \in Levels }

\* updates mappings: a level alone, as int, float and string; a level after
\* and before another entry; rules strings and plain fields
UpdateMaps ==
    { <<<<T_level, IntValue(n)>>>> : n \in Levels }
    \cup { <<<<T_level, FloatValue(h)>>>> : h \in {1, 3, 33} }
    \cup { <<<<T_level, StrValue(s)>>>> : s \in {<<"1", "6">>, <<"1", "7">>, <<"x">>} }
    \cup { <<<<T_timeout, IntValue(5)>>, <<T_level, IntValue(n)>>>> : n \in {16, 17} }
    \cup { <<<<T_level, IntValue(n)>>, <<T_timeout, IntValue(5)>>>> : n \in {16, 17} }
    \cup { <<<<T_rules_group, StrValue(<<"a", ",">>)>>,
             <<T_rules_id, StrValue(<<"7", ",">>)>>>>,
           <<<<T_rules_id, StrValue(<<"1", "0", ",", "2", "0">>)>>>>,
           <<<<T_location, StrValue(server)>>, <<T_rules_group, StrValue(<<"a">>)>>>>,
           <<<<T_timeout, StrValue(<<"9">>)>>, <<T_level, StrValue(<<"x">>)>>>> }

InitUpdate == InitWith(UpdateDocs)

NextUpdate ==
    \/ Construct("ossec.conf")
    \/ \E a \in LevelArgs : CanCallUpdate /\ add_active_response(a)
    \/ \E c \in Names, u \in UpdateMaps : update_active_response(c, u)

SpecUpdate == InitUpdate /\ [][NextUpdate]_vars

-----------------------------------------------------------------------------
(* Properties of active-response updates *)

\* the texts of the level leaves of the active-responses of a document
LevelLeaves(e) ==
    UNION { { NodeAt(e, l).text : l \in { FindAll(e, ar, T_level)[j] :
                                           j \in 1..Len(FindAll(e, ar, T_level)) } } :
            ar \in { Descendants(e, <<>>, T_active_response)[i] :
                     i \in 1..Len(Descendants(e, <<>>, T_active_response)) } }

\* the decimal texts of the valid levels
ValidLevelTexts == { Str(n) : n \in 1..16 }

\* the value is an integer from 1 to 16, as a number or in decimal digits
DenotesValidLevel(value) ==
    \/ value.kind = "int" /\ value.n \in 1..16
    \/ value.kind = "str" /\ value.s \in ValidLevelTexts

\* C11: a level given to add_active_response or update_active_response is
\* accepted exactly when it is an integer from 1 to 16, so that every level
\* leaf one of the two operations writes is the text of such an integer.
\* Acceptance is judged on calls where nothing but the level can fail: an add
\* whose other arguments pass, an update of an existing binding with the level
\* as only entry.
C11_LevelInRange ==
    [][ /\ NewCall("add_active_response")
           => LET call == hist'[Len(hist')]
              IN  /\ LevelLeaves(root') \subseteq LevelLeaves(root) \cup ValidLevelTexts
                  /\ (call.args.level # NoInt
                      /\ ArAccepted(root, [call.args EXCEPT !.level = NoInt])
                      /\ HasContainer(root))
                     => (call.ret = "True" <=> call.args.level \in 1..16)
        /\ NewCall("update_active_response")
           => LET call == hist'[Len(hist')]
                  u    == call.args.updates
              IN  /\ LevelLeaves(root') \subseteq LevelLeaves(root) \cup ValidLevelTexts
                  /\ (Len(u) = 1 /\ u[1][1] = T_level
                      /\ FirstWithChildText(root, Descendants(root, <<>>, T_active_response),
                                            T_command, call.args.command) # NoRef)
                     => (call.ret = "True" <=> DenotesValidLevel(u[1][2]))
      ]_vars

-----------------------------------------------------------------------------
(* Specification of the rules validators *)

MaxLen == 4

\* every string of at most n characters of the alphabet
RECURSIVE Strings(_, _)
Strings(alphabet, n) ==
    IF n = 0 THEN {<<>>}
    ELSE Strings(alphabet, n - 1)
         \cup { Append(s, c) : s \in { t \in Strings(alphabet, n - 1) : Len(t) = n - 1 },
                               c \in alphabet }

\* the characters that matter to each validator, and one that does not
GroupAlphabet == {"a", ",", "|", " "}

IdAlphabet == {"7", "a", ",", " "}

\* a validator is a pure function of its argument: it is applied once, on a
\* manager that has just been constructed
CanCallValidate == pc = "ready" /\ hist[Len(hist)].op = "__init__"

validate_rules_group(rules_group) ==
    /\ CanCallValidate
    /\ Returns("_validate_rules_group", rules_group,
               IF _validate_rules_group(rules_group) THEN "True" ELSE "False")
    /\ UNCHANGED <<disk, file_path, root, loaded, pc>>

validate_rules_id(rules_id) ==
    /\ CanCallValidate
    /\ Returns("_validate_rules_id", rules_id,
               IF _validate_rules_id(rules_id) THEN "True" ELSE "False")
    /\ UNCHANGED <<disk, file_path, root, loaded, pc>>

ValidateDocs ==
    { <<Container(<<CommandElem(c1, c1, yes), ActiveResponseElem(c1, local)>>)>> }

InitValidate == InitWith(ValidateDocs)

NextValidate ==
    \/ Construct("ossec.conf")
    \/ \E s \in Strings(GroupAlphabet, MaxLen) : validate_rules_group(s)
    \/ \E s \in Strings(IdAlphabet, MaxLen) : validate_rules_id(s)

SpecValidate == InitValidate /\ [][NextValidate]_vars

-----------------------------------------------------------------------------
(* Properties of the rules validators *)

\* position i bounds a segment of s cut at sep: the position before the first
\* character, the one after the last, or a separator
Cut(s, sep, i) == i = 0 \/ i = Len(s) + 1 \/ (i \in 1..Len(s) /\ s[i] = sep)

\* the pairs (i, j) of neighbouring cuts: s[i+1..j-1] is one segment
Segments(s, sep) ==
    { ij \in (0..Len(s)) \X (1..(Len(s) + 1)) :
          /\ ij[1] < ij[2]
          /\ Cut(s, sep, ij[1])
          /\ Cut(s, sep, ij[2])
          /\ \A k \in (ij[1] + 1)..(ij[2] - 1) : ~Cut(s, sep, k) }

\* the last character of the segment that is not a blank is a comma
EndsWithComma(s, ij) ==
    \E k \in (ij[1] + 1)..(ij[2] - 1) :
        s[k] = "," /\ \A m \in (k + 1)..(ij[2] - 1) : s[m] = " "

\* between blanks, the segment is one non-empty run of digits
IsDigitRun(s, ij) ==
    \E a \in (ij[1] + 1)..(ij[2] - 1), b \in (ij[1] + 1)..(ij[2] - 1) :
        /\ a <= b
        /\ \A m \in (ij[1] + 1)..(ij[2] - 1) :
               IF a <= m /\ m <= b THEN s[m] \in Digits ELSE s[m] = " "

\* C12: the rules_group validator accepts a string exactly when the string is
\* not empty and every segment between '|' characters, blanks at its ends
\* aside, ends with ','; the call leaves the document as it is.
C12_RulesGroup ==
    [][ NewCall("_validate_rules_group")
        => LET call == hist'[Len(hist')]
           IN  /\ root' = root
               /\ call.ret = "True"
                  <=> /\ call.args # <<>>
                      /\ \A ij \in Segments(call.args, "|") : EndsWithComma(call.args, ij)
      ]_vars

\* a string of two segments, one of them with a blank at an end, accepted
C12_Witness ==
    /\ Len(hist) = 2
    /\ Called(hist, 2, "_validate_rules_group", "True")
    /\ \E k \in 1..Len(hist[2].args) : hist[2].args[k] = "|"
    /\ \E k \in 1..Len(hist[2].args) : hist[2].args[k] = " "
    /\ root = loaded

\* C13: the rules_id validator accepts a string exactly when the string is not
\* empty and every segment between ',' characters, blanks at its ends aside, is
\* a non-empty run of digits, so that a comma at the end or two commas in a row
\* are rejected; the call leaves the document as it is.
C13_RulesId ==
    [][ NewCall("_validate_rules_id")
        => LET call == hist'[Len(hist')]
           IN  /\ root' = root
               /\ call.ret = "True"
                  <=> /\ call.args # <<>>
                      /\ \A ij \in Segments(call.args, ",") : IsDigitRun(call.args, ij)
      ]_vars

\* a string with a comma at its end, rejected
C13_Witness ==
    /\ Len(hist) = 2
    /\ Called(hist, 2, "_validate_rules_id", "False")
    /\ hist[2].args = <<"7", ",">>
    /\ root = loaded

-----------------------------------------------------------------------------
(* Properties of the formatter *)

\* the references of all elements of the tree below and including p
RECURSIVE Refs(_, _)
Refs(e, p) ==
    {p} \cup UNION { Refs(e, p \o <<i>>) : i \in 1..Len(NodeAt(e, p).kids) }

\* the characters the serialized text has between the previous tag and the
\* opening tag of the element at p: the text of its parent for a first child,
\* the tail of the sibling before it otherwise
BeforeOpeningTag(e, p) ==
    LET parent == SubSeq(p, 1, Len(p) - 1)
        i      == p[Len(p)]
    IN  IF i = 1 THEN NodeAt(e, parent).text
        ELSE NodeAt(e, parent \o <<i - 1>>).tail

\* the characters before the closing tag of an element with children: the
\* tail of its last child
BeforeClosingTag(e, p) ==
    NodeAt(e, p).kids[Len(NodeAt(e, p).kids)].tail

\* every opening tag below the root is on a line of its own, indented by its depth
OpeningTagsIndented(e) ==
    \A p \in Refs(e, <<>>) \ {<<>>} : BeforeOpeningTag(e, p) = NL \o Indent(Len(p))

\* every closing tag of an element with children is on a line of its own,
\* indented by the depth of its element
ClosingTagsIndented(e) ==
    \A p \in Refs(e, <<>>) :
        NodeAt(e, p).kids # <<>> => BeforeClosingTag(e, p) = NL \o Indent(Len(p))

\* C14: after the formatter has run (the second part of save_config), every
\* opening tag, and every closing tag of an element with children, is
\* preceded in the serialized text by a newline and two spaces per depth level
\* of its element, the synthetic root being at depth 0.
C14_FormatIndentation ==
    [][ (pc = "saving" /\ pc' = "ready")
        => OpeningTagsIndented(root') /\ ClosingTagsIndented(root') ]_vars

\* the half of C14 about opening tags alone
C14_OpeningTags ==
    [][ (pc = "saving" /\ pc' = "ready") => OpeningTagsIndented(root') ]_vars

-----------------------------------------------------------------------------
(* ActiveResponseManager: update_command *)

MaxCommandOps == 2

\* the loop over updates.items() of update_command: each entry sets the text of
\* the first child with its tag, or adds such a child
RECURSIVE WriteEntries(_, _, _)
WriteEntries(e, p, updates) ==
    IF updates = <<>> THEN e
    ELSE LET tag     == Head(updates)[1]
             value   == Head(updates)[2]
             element == Find(e, p, tag)
         IN  WriteEntries(
                 IF element # NoRef
                 THEN SetAt(e, element, [NodeAt(e, element) EXCEPT !.text = str(value)])
                 ELSE AppendAt(e, p, Leaf(tag, str(value))),
                 p, Tail(updates))

CanCallCommands == pc = "ready" /\ Len(hist) <= MaxCommandOps

update_command(name, updates) ==
    /\ CanCallCommands
    /\ LET command == FirstWithChildText(root, Descendants(root, <<>>, T_command),
                                         T_name, name)
           args    == [name |-> name, updates |-> updates]
       IN  IF command = NoRef
           THEN /\ Returns("update_command", args, "False")
                /\ UNCHANGED root
           ELSE /\ Returns("update_command", args, "True")
                /\ root' = WriteEntries(root, command, updates)
    /\ UNCHANGED <<disk, file_path, loaded, pc>>

-----------------------------------------------------------------------------
(* Specification of the command editor *)

\* input files: a command with a binding, both in the container; a command
\* at top level with its binding in the container; two commands, the second
\* with a binding; an empty container
CommandDocs ==
    { <<Container(<<CommandElem(c1, c1, yes), ActiveResponseElem(c1, local)>>)>>,
      <<CommandElem(c1, c1, yes), Container(<<ActiveResponseElem(c1, local)>>)>>,
      <<Container(<<CommandElem(c1, c1, yes), CommandElem(c2, c2, no),
                    ActiveResponseElem(c2, local)>>)>>,
      <<Container(<<>>)>> }

\* updates mappings of update_command: a new name, another executable, both,
\* and a field the command does not have yet
CommandUpdates ==
    { <<<<T_name, StrValue(n)>>>> : n \in Names }
    \cup { <<<<T_executable, StrValue(c2)>>>>,
           <<<<T_timeout_allowed, StrValue(no)>>, <<T_name, StrValue(c2)>>>>,
           <<<<T_timeout, IntValue(5)>>>> }

InitCommands == InitWith(CommandDocs)

NextCommands ==
    \/ Construct("ossec.conf")
    \/ \E n \in Names, b \in BOOLEAN :
           CanCallCommands /\ add_command(n, IF b THEN c1 ELSE c2, b)
    \/ \E n \in Names, u \in CommandUpdates : update_command(n, u)
    \/ \E n \in Names : CanCallCommands /\ remove_command(n)
    \/ \E n \in Names :
           CanCallCommands
           /\ add_active_response(ArCall(n, local, NoInt, NoInt, None, None, None))

SpecCommands == InitCommands /\ [][NextCommands]_vars

-----------------------------------------------------------------------------
(* Properties of the command editor *)

\* C15: remove_command does not look at references.  Called with the name of
\* a Command that an active-response still names, it returns True, the
\* Command is gone and the active-responses are as before, which leaves a
\* binding to a command that does not exist.
C15_RemoveReferencedCommand ==
    [][ ( /\ NewCall("remove_command")
          /\ CommandEntities(root, hist'[Len(hist')].args.name) # {}
          /\ BindingsOf(root, hist'[Len(hist')].args.name) # {} )
        => /\ hist'[Len(hist')].ret = "True"
           /\ Cardinality(CommandEntities(root', hist'[Len(hist')].args.name))
                  = Cardinality(CommandEntities(root, hist'[Len(hist')].args.name)) - 1
           /\ get_active_responses(root') = get_active_responses(root)
           /\ DanglingCommands(root') # {} ]_vars

\* a removal that went through and left a binding without its command
C15_DanglingReached ==
    /\ pc = "ready"
    /\ Called(hist, Len(hist), "remove_command", "True")
    /\ hist[Len(hist)].args.name \in DanglingCommands(root)

\* the Command entities of a document, in document order: the command
\* elements that are not the command field of an active-response
CommandEntityRefs(e) ==
    SelectSeq(Descendants(e, <<>>, T_command),
              LAMBDA r : NodeAt(e, SubSeq(r, 1, Len(r) - 1)).tag # T_active_response)

\* C19: get_commands returns exactly the Command entities: one mapping of the
\* entity's fields per Command entity, in document order, and nothing else,
\* however many active-responses the document holds.
C19_GetCommandsExact ==
    pc = "ready"
    => /\ Len(get_commands(root)) = Len(CommandEntityRefs(root))
       /\ \A i \in 1..Len(CommandEntityRefs(root)) :
              get_commands(root)[i]
                  = [j \in 1..Len(NodeAt(root, CommandEntityRefs(root)[i]).kids) |->
                         <<NodeAt(root, CommandEntityRefs(root)[i]).kids[j].tag,
                           NodeAt(root, CommandEntityRefs(root)[i]).kids[j].text>>]

\* no two Command entities of the document have the same name
NamesDistinct(e) ==
    \A n \in FieldValues(get_commands(e), T_name) : Cardinality(CommandEntities(e, n)) <= 1

\* C20: command names stay unique.  When the names of the loaded document are
\* pairwise distinct and only add_command, update_command and remove_command
\* have been called since, the names of the document are pairwise distinct.
C20_NamesStayUnique ==
    ( /\ pc = "ready"
      /\ NamesDistinct(loaded)
      /\ \A i \in 2..Len(hist) :
             hist[i].op \in {"add_command", "update_command", "remove_command"} )
    => NamesDistinct(root)

-----------------------------------------------------------------------------
(* OSSECConfigManager: update_config_section *)

MaxSectionOps == 2

\* the values of an updates mapping: a string; a dict, as the list of its
\* (tag, value) items in insertion order; a list of items {'tag':, 'text':},
\* each as a (tag, text) pair
Scalar(text) == [kind |-> "scalar", text |-> text, items |-> <<>>]

Mapping(items) == [kind |-> "dict", text |-> None, items |-> items]

Sequence(items) == [kind |-> "list", text |-> None, items |-> items]

\* a sequence value that is appended to what the node holds
ClearAndFill_appending(e, parent, items) ==
    LET node == NodeAt(e, parent)
    IN  SetAt(e, parent,
              [node EXCEPT !.kids = @ \o [i \in 1..Len(items) |->
                                             Leaf(items[i][1], items[i][2])]])

\* parent.clear() followed by one SubElement per item: the node keeps its tag
\* and loses text, tail and children
ClearAndFill(e, parent, items) ==
    SetAt(e, parent,
          Elem(NodeAt(e, parent).tag, None,
               [i \in 1..Len(items) |-> Leaf(items[i][1], items[i][2])]))

\* apply_updates(element, updates) on the element at p: every entry works on
\* the first child with its tag, created as last child when there is none
RECURSIVE apply_updates(_, _, _)
apply_updates(e, p, updates) ==
    IF updates = <<>> THEN e
    ELSE LET tag     == Head(updates)[1]
             value   == Head(updates)[2]
             found   == Find(e, p, tag)
             created == IF found = NoRef THEN AppendAt(e, p, Leaf(tag, None)) ELSE e
             child   == IF found = NoRef THEN p \o <<Len(NodeAt(e, p).kids) + 1>>
                                         ELSE found
             applied == IF value.kind = "dict"
                        THEN apply_updates(created, child, value.items)
                        ELSE IF value.kind = "list"
                        THEN ClearAndFill(created, child, value.items)
                        ELSE SetAt(created, child,
                                   [NodeAt(created, child) EXCEPT !.text = value.text])
         IN  apply_updates(applied, p, Tail(updates))

\* the walk over path.split('/') from the root: the first child with the
\* segment's tag, created when there is none
RECURSIVE EnsurePath(_, _, _)
EnsurePath(e, p, tags) ==
    IF tags = <<>> THEN [tree |-> e, ref |-> p]
    ELSE LET next_element == Find(e, p, Head(tags))
         IN  IF next_element = NoRef
             THEN EnsurePath(AppendAt(e, p, Leaf(Head(tags), None)),
                             p \o <<Len(NodeAt(e, p).kids) + 1>>, Tail(tags))
             ELSE EnsurePath(e, next_element, Tail(tags))

\* the element update_config_section works on, in the tree that holds it
TargetElement(e, path) ==
    IF FindPath(e, path) # NoRef THEN [tree |-> e, ref |-> FindPath(e, path)]
    ELSE EnsurePath(e, <<>>, path)

CanCallSection == pc = "ready" /\ Len(hist) <= MaxSectionOps

update_config_section(path, updates) ==
    /\ CanCallSection
    /\ root' = apply_updates(TargetElement(root, path).tree,
                             TargetElement(root, path).ref, updates)
    /\ Returns("update_config_section", [path |-> path, updates |-> updates], "None")
    /\ UNCHANGED <<disk, file_path, loaded, pc>>

-----------------------------------------------------------------------------
(* Specification of section updates *)

\* input files: a container with a section of three leaves and an
\* integration; the same section twice at top level; an indented file; an
\* empty container
SectionDocs ==
    { <<Container(<<Elem(T_global, None,
                         <<Leaf(T_list, c1), Leaf(T_list, c2), Leaf(T_name, c1)>>),
                    IntegrationElem(slack, h1)>>)>>,
      <<Elem(T_global, None, <<Leaf(T_name, c1)>>),
        Elem(T_global, None, <<Leaf(T_list, c1), Leaf(T_name, c2), Leaf(T_list, c2)>>)>>,
      <<Pretty(T_ossec_config, NL \o Indent(1), NL,
               <<Pretty(T_global, NL \o Indent(2), NL,
                        <<Pretty(T_list, NL \o Indent(3), NL \o Indent(2),
                                 <<Pretty(T_name, c1, NL \o Indent(2), <<>>)>>),
                          Pretty(T_name, c2, NL \o Indent(1), <<>>)>>)>>)>>,
      <<Container(<<>>)>> }

\* paths as lists of segments: existing sections, a section that exists in
\* the second of two blocks only, sections to be created, the empty string
UpdatePaths ==
    { <<T_ossec_config, T_global>>,
      <<T_global>>,
      <<T_global, T_list>>,
      <<T_ossec_config, T_integration, T_hook_url>>,
      <<T_list, T_name>>,
      <<<<>>>> }

\* updates mappings: a scalar; a sequence with two items of one tag; an empty
\* sequence; a nested mapping holding a scalar and a sequence, next to a
\* scalar; the empty mapping; mappings nested twice
SectionUpdates ==
    { <<<<T_name, Scalar(c2)>>>>,
      <<<<T_list, Sequence(<<<<T_name, c1>>, <<T_name, c2>>>>)>>>>,
      <<<<T_list, Sequence(<<>>)>>>>,
      <<<<T_global, Mapping(<<<<T_name, Scalar(c1)>>,
                              <<T_list, Sequence(<<<<T_list, c2>>>>)>>>>)>>,
        <<T_hook_url, Scalar(h2)>>>>,
      <<>>,
      <<<<T_integration, Mapping(<<<<T_global, Mapping(<<>>)>>>>)>>>> }

InitSection == InitWith(SectionDocs)

NextSection ==
    \/ Construct("ossec.conf")
    \/ \E path \in UpdatePaths, u \in SectionUpdates : update_config_section(path, u)

SpecSection == InitSection /\ [][NextSection]_vars

-----------------------------------------------------------------------------
(* Properties of section updates *)

\* the element at p holds what the mapping says: for every entry the first
\* child with the entry's tag exists and has the scalar as text, or holds the
\* nested mapping, or has exactly the items of the sequence as children
RECURSIVE Holds(_, _, _)
Holds(e, p, updates) ==
    \A k \in 1..Len(updates) :
        LET tag   == updates[k][1]
            value == updates[k][2]
            child == Find(e, p, tag)
        IN  /\ child # NoRef
            /\ IF value.kind = "dict" THEN Holds(e, child, value.items)
               ELSE IF value.kind = "list"
               THEN /\ Len(NodeAt(e, child).kids) = Len(value.items)
                    /\ \A i \in 1..Len(value.items) :
                           /\ NodeAt(e, child).kids[i].tag = value.items[i][1]
                           /\ NodeAt(e, child).kids[i].text = value.items[i][2]
                           /\ NodeAt(e, child).kids[i].kids = <<>>
               ELSE NodeAt(e, child).text = value.text

\* C16: update_config_section merges or creates and is idempotent.  After a
\* call the section at the path exists and holds the mapping, a sequence value
\* having replaced all former children of its node; an entry whose tag the
\* target already had adds no child of that tag; and the same call made once
\* more leaves the document as it is.
C16_UpdateIdempotent ==
    [][ NewCall("update_config_section")
        => LET call   == hist'[Len(hist')]
               before == FindPath(root, call.args.path)
               after  == FindPath(root', call.args.path)
           IN  /\ after # NoRef
               /\ Holds(root', after, call.args.updates)
               /\ before # NoRef
                  => /\ after = before
                     /\ \A k \in 1..Len(call.args.updates) :
                            Len(FindAll(root', after, call.args.updates[k][1]))
                                = IF Find(root, before, call.args.updates[k][1]) = NoRef
                                  THEN 1
                                  ELSE Len(FindAll(root, before, call.args.updates[k][1]))
               /\ ( /\ hist[Len(hist)].op = "update_config_section"
                    /\ hist[Len(hist)].args = call.args )
                  => root' = root
      ]_vars

\* the same call twice in a row, with a sequence value, on a section whose
\* node for the sequence had other children before
C16_Witness ==
    LET n == Len(hist) IN
    /\ n = 3
    /\ hist[n].op = "update_config_section"
    /\ hist[n - 1].op = "update_config_section"
    /\ hist[n].args = hist[n - 1].args
    /\ hist[n].args.path = <<T_ossec_config, T_global>>
    /\ \E k \in 1..Len(hist[n].args.updates) : hist[n].args.updates[k][2].kind = "list"
    /\ FindPath(loaded, hist[n].args.path) # NoRef
    /\ Find(loaded, FindPath(loaded, hist[n].args.path), T_list) # NoRef
    /\ NodeAt(loaded, Find(loaded, FindPath(loaded, hist[n].args.path), T_list)).kids # <<>>
    /\ root # loaded

-----------------------------------------------------------------------------
(* Properties of failed calls *)

\* C17: an update_active_response that returns False has changed nothing: no
\* entry of its updates mapping has been written, wherever in the mapping the
\* rejected entry stands.
C17_FailedUpdateIsNoOp ==
    [][ ( /\ NewCall("update_active_response")
          /\ hist'[Len(hist')].ret = "False" )
        => root' = root ]_vars

-----------------------------------------------------------------------------
(* ActiveResponseManager: convenience constructors *)

MaxCreateOps == 2

host_deny == <<"h", "o", "s", "t", "-", "d", "e", "n", "y">>

restart_ossec == <<"r", "e", "s", "t", "a", "r", "t", "-", "o", "s", "s", "e", "c">>

disable_account ==
    <<"d", "i", "s", "a", "b", "l", "e", "-", "a", "c", "c", "o", "u", "n", "t">>

\* the default rules_id of create_ssh_block_response, "5763,5761,5762"
ssh_rules_id ==
    <<"5", "7", "6", "3", ",", "5", "7", "6", "1", ",", "5", "7", "6", "2">>

\* the default rules_group of create_user_disable_response
authentication_failure ==
    <<"a", "u", "t", "h", "e", "n", "t", "i", "c", "a", "t", "i", "o", "n", "_",
      "f", "a", "i", "l", "u", "r", "e", ",">>

CanCallCreate == pc = "ready" /\ Len(hist) <= MaxCreateOps

\* the body the three constructors share: the command is added when it does
\* not exist, then add_active_response(a) decides the result on the tree the
\* first step left.  Without a container block either step raises TypeError.
CreateResponse(op, timeout_allowed, a) ==
    LET container == Find(root, <<>>, T_ossec_config)
        ensured   == IF command_exists(root, a.command) THEN root
                     ELSE AppendAt(root, container,
                                   CommandElem(a.command, a.command,
                                               IF timeout_allowed THEN yes ELSE no))
    IN  IF ~command_exists(root, a.command) /\ container = NoRef
        THEN /\ Returns(op, a, "TypeError")
             /\ UNCHANGED root
        ELSE IF ~ArAccepted(ensured, a)
        THEN /\ Returns(op, a, "False")
             /\ root' = ensured
        ELSE IF container = NoRef
        THEN /\ Returns(op, a, "TypeError")
             /\ root' = ensured
        ELSE /\ Returns(op, a, "True")
             /\ root' = AppendAt(ensured, container, NewActiveResponse(a))

create_ssh_block_response(location, level, timeout, rules_id) ==
    /\ CanCallCreate
    /\ CreateResponse("create_ssh_block_response", TRUE,
                      ArCall(host_deny, location, level, timeout, None, None, rules_id))
    /\ UNCHANGED <<disk, file_path, loaded, pc>>

create_agent_restart_response(location, level, timeout) ==
    /\ CanCallCreate
    /\ CreateResponse("create_agent_restart_response", FALSE,
                      ArCall(restart_ossec, location, level, timeout, None, None, None))
    /\ UNCHANGED <<disk, file_path, loaded, pc>>

create_user_disable_response(location, level, timeout, rules_group) ==
    /\ CanCallCreate
    /\ CreateResponse("create_user_disable_response", TRUE,
                      ArCall(disable_account, location, level, timeout, None, rules_group, None))
    /\ UNCHANGED <<disk, file_path, loaded, pc>>

-----------------------------------------------------------------------------
(* Specification of the convenience constructors *)

\* input files: an empty container; a container that holds the host-deny
\* command; the restart-ossec command at top level, without container
CreateDocs ==
    { <<Container(<<>>)>>,
      <<Container(<<CommandElem(host_deny, host_deny, yes)>>)>>,
      <<CommandElem(restart_ossec, restart_ossec, no)>> }

\* locations: the default, one that needs an agent_id, one that is no location
CreateLocations == {local, defined_agent, <<"r", "e", "m", "o", "t", "e">>}

InitCreate == InitWith(CreateDocs)

\* each constructor with its default level and timeout and with a level out
\* of range, its rules string at the default and malformed
NextCreate ==
    \/ Construct("ossec.conf")
    \/ \E l \in CreateLocations, n \in {7, 17}, r \in {ssh_rules_id, <<"5", ",">>} :
           create_ssh_block_response(l, n, 600, r)
    \/ \E l \in CreateLocations, n \in {12, 0} :
           create_agent_restart_response(l, n, 300)
    \/ \E l \in CreateLocations, n \in {10, 17}, g \in {authentication_failure, <<"a">>} :
           create_user_disable_response(l, n, 3600, g)

SpecCreate == InitCreate /\ [][NextCreate]_vars

-----------------------------------------------------------------------------
(* Properties of the convenience constructors *)

CreateOps ==
    {"create_ssh_block_response", "create_agent_restart_response",
     "create_user_disable_response"}

\* C18: a convenience constructor that returns False has changed nothing: the
\* document, and with it the list of Command entities, is as before the call.
C18_FailedCreateIsNoOp ==
    [][ ( /\ hist' # hist
          /\ hist'[Len(hist')].op \in CreateOps
          /\ hist'[Len(hist')].ret = "False" )
        => /\ root' = root
           /\ get_commands(root') = get_commands(root) ]_vars

====
